---- MODULE Spec2Model ----
(***************************************************************************)
(* Birthdaysolarsystem.py: two scripts that build an animated solar system *)
(* in a 3D host application (the "enhanced" script, lines 1-590, and the   *)
(* "maya holder" script, lines 592-925).                                   *)
(*                                                                         *)
(* Numbers.  The scripts compute in floating point.  The model computes in *)
(* fixed point: a real value v is the integer v * Scale, truncated.        *)
(* Angles given in degrees are kept in millidegrees, frames in             *)
(* milliframes.  Equalities between computed reals are therefore stated up *)
(* to the resolution of the fixed point (the named tolerances).            *)
(***************************************************************************)
EXTENDS Integers, Sequences, FiniteSets, TLC

\* One unit of a fixed-point real is 1/Scale.
Scale == 100 * 100

\* Millidegrees per degree, milliframes per frame.
Milli == 10 * 100

\* F applied to the value of a: LET v == a IN F(v), with a evaluated once.
With(a, F(_)) == CHOOSE r \in {F(v) : v \in {a}} : TRUE

Abs(x) == IF x < 0 THEN -x ELSE x

Sign(x) == IF x < 0 THEN -1 ELSE 1

Min(a, b) == IF a < b THEN a ELSE b

Max(a, b) == IF a < b THEN b ELSE a

\* The largest integer of the 32-bit arithmetic the model is evaluated in.
MaxInt == 2147483646 + 1

\* <<q, r>> with a * b = q * c + r and 0 <= r < c, for a, b >= 0 and c > 0,
\* computed without forming a * b (binary long multiplication).
RECURSIVE MulDivQR(_, _, _)
MulDivQR(a, b, c) ==
    IF b = 0 THEN <<0, 0>>
    ELSE With(MulDivQR(a, b \div 2, c), LAMBDA h :
         With(2 * h[2] + (IF b % 2 = 1 THEN a % c ELSE 0), LAMBDA r2 :
             <<2 * h[1] + (IF b % 2 = 1 THEN a \div c ELSE 0) + (r2 \div c),
               r2 % c>>))

\* floor(a * b / c) for a, b >= 0 and c > 0: directly when a * b fits,
\* by splitting a (or b) into quotient and remainder by c when that fits,
\* by long multiplication otherwise.
MulDivNat(a, b, c) ==
    IF a = 0 \/ b = 0 THEN 0
    ELSE IF a <= MaxInt \div b THEN (a * b) \div c
    ELSE IF b <= MaxInt \div c THEN (a \div c) * b + ((a % c) * b) \div c
    ELSE IF a <= MaxInt \div c THEN (b \div c) * a + ((b % c) * a) \div c
    ELSE MulDivQR(a, b, c)[1]

\* a * b / c truncated toward zero, any signs of a and b, c > 0.
MulDiv(a, b, c) ==
    With(<<a, b, c>>, LAMBDA v :
        Sign(v[1]) * Sign(v[2]) * MulDivNat(Abs(v[1]), Abs(v[2]), v[3]))

\* Fixed-point product and quotient.
FMul(a, b) == MulDiv(a, b, Scale)

FDiv(a, b) == With(b, LAMBDA d : Sign(d) * MulDiv(a, Scale, Abs(d)))

\* Python's int(): truncation toward zero of a / b, b > 0.
IntTrunc(a, b) == With(a, LAMBDA v : Sign(v) * (Abs(v) \div b))

\* floor(sqrt(n)) for n >= 0, by bisection between lo and hi.
RECURSIVE ISqrtIn(_, _, _)
ISqrtIn(n, lo, hi) ==
    IF lo >= hi THEN lo
    ELSE With((lo + hi + 1) \div 2, LAMBDA mid :
             IF mid * mid <= n THEN ISqrtIn(n, mid, hi)
                               ELSE ISqrtIn(n, lo, mid - 1))

ISqrt(n) == With(n, LAMBDA v : ISqrtIn(v, 0, Min(v, 181 * 256)))

\* math.sqrt of a fixed-point real x >= 0; above 20 the last digit is dropped
\* so that the radicand fits.
FSqrt(x) ==
    With(x, LAMBDA v :
        IF v <= 20 * Scale THEN ISqrt(v * Scale) ELSE 10 * ISqrt(v * 100))

\* pi / 2 in fixed point; math.pi and 2 * math.pi are its multiples.
HalfPi == 15708

Pi == 2 * HalfPi

TwoPi == 4 * HalfPi

\* sin on [0, pi/2] by its Taylor polynomial of degree 9 (Horner form).
SinQ(x) ==
    IF x = HalfPi THEN Scale
    ELSE With(FMul(x, x), LAMBDA x2 :
         With(Scale - x2 \div 72, LAMBDA t9 :
         With(Scale - FMul(x2, t9) \div 42, LAMBDA t7 :
         With(Scale - FMul(x2, t7) \div 20, LAMBDA t5 :
         With(Scale - FMul(x2, t5) \div 6, LAMBDA t3 :
         With(FMul(x, t3), LAMBDA s : Min(Scale, s)))))))

\* math.sin and math.cos of an angle in fixed-point radians.
Sin(x) ==
    With(x % TwoPi, LAMBDA r :
        IF r <= HalfPi THEN SinQ(r)
        ELSE IF r <= Pi THEN SinQ(Pi - r)
        ELSE IF r <= Pi + HalfPi THEN -SinQ(r - Pi)
        ELSE -SinQ(TwoPi - r))

Cos(x) == Sin(x + HalfPi)

\* math.radians of an angle in millidegrees.
Radians(mdeg) == MulDiv(mdeg, Pi, 180 * Milli)

\* atan on [0, tan(pi/8)] by its Taylor polynomial of degree 11.
AtanSmall(u) ==
    With(FMul(u, u), LAMBDA u2 :
    With(Scale \div 9 - FMul(u2, Scale \div 11), LAMBDA t9 :
    With(Scale \div 7 - FMul(u2, t9), LAMBDA t7 :
    With(Scale \div 5 - FMul(u2, t7), LAMBDA t5 :
    With(Scale \div 3 - FMul(u2, t5), LAMBDA t3 :
        FMul(u, Scale - FMul(u2, t3)))))))

\* atan on [0, 1]: above tan(pi/8), atan t = pi/4 + atan((t-1)/(t+1)).
AtanUnit(t) ==
    IF 1000 * t <= 414 * Scale THEN AtanSmall(t)
    ELSE With(FDiv(t - Scale, t + Scale), LAMBDA u :
             HalfPi \div 2 + Sign(u) * AtanSmall(Abs(u)))

\* math.atan2(y, x), result in (-pi, pi].
Atan2(y, x) ==
    With(<<y, x, Abs(y), Abs(x)>>, LAMBDA v :
    With(IF v[4] = 0 /\ v[3] = 0 THEN 0
         ELSE IF v[3] <= v[4]
         THEN With(FDiv(v[3], v[4]), LAMBDA t : AtanUnit(t))
         ELSE With(FDiv(v[4], v[3]), LAMBDA t : HalfPi - AtanUnit(t)),
         LAMBDA a :
    With(IF v[2] >= 0 THEN a ELSE Pi - a, LAMBDA q :
        IF v[1] < 0 THEN -q ELSE q)))

\* ln 2 in fixed point.
Ln2 == 6931

\* math.log of x > 0: x = m * 2^k with m in [1, 2), ln m = 2 atanh((m-1)/(m+1)).
RECURSIVE LnIn(_, _)
LnIn(x, k) ==
    IF x >= 2 * Scale THEN LnIn(x \div 2, k + 1)
    ELSE IF x < Scale THEN LnIn(2 * x, k - 1)
    ELSE With(FDiv(x - Scale, x + Scale), LAMBDA z :
         With(FMul(z, z), LAMBDA z2 :
         With(Scale \div 7 + FMul(z2, Scale \div 9), LAMBDA t7 :
         With(Scale \div 5 + FMul(z2, t7), LAMBDA t5 :
         With(Scale \div 3 + FMul(z2, t5), LAMBDA t3 :
             k * Ln2 + 2 * FMul(z, Scale + FMul(z2, t3)))))))

Ln(x) == With(x, LAMBDA v : LnIn(v, 0))

\* 2^k * v for any integer k.
RECURSIVE Shift(_, _)
Shift(v, k) ==
    IF k = 0 THEN v
    ELSE IF k > 0 THEN Shift(2 * v, k - 1)
    ELSE Shift(v \div 2, k + 1)

\* e^r for r in [0, ln 2) by its Taylor polynomial of degree 8.
ExpSmall(r) ==
    With(Scale + r \div 8, LAMBDA t8 :
    With(Scale + FMul(r, t8) \div 7, LAMBDA t7 :
    With(Scale + FMul(r, t7) \div 6, LAMBDA t6 :
    With(Scale + FMul(r, t6) \div 5, LAMBDA t5 :
    With(Scale + FMul(r, t5) \div 4, LAMBDA t4 :
    With(Scale + FMul(r, t4) \div 3, LAMBDA t3 :
    With(Scale + FMul(r, t3) \div 2, LAMBDA t2 :
        Scale + FMul(r, t2))))))))

\* math.exp of t: t = k ln 2 + r with r in [0, ln 2).
Exp(t) ==
    With(t, LAMBDA v :
    With(IF v >= 0 THEN v \div Ln2 ELSE -((-v + Ln2 - 1) \div Ln2), LAMBDA k :
    With(ExpSmall(v - k * Ln2), LAMBDA p : Shift(p, k))))

\* x ** (num / den) for x > 0 (Python's float power).
Pow(x, num, den) == Exp(MulDiv(Ln(x), num, den))


(***************************************************************************)
(* The program's data and pure functions.                                  *)
(***************************************************************************)

\* The planets table (the same tuples in both scripts), without the colour.
\* real_au and eccentricity are fixed-point reals, the three angles are in
\* millidegrees, rotation_hours is in tenths of an hour.
planets ==
    << [name |-> "mercury", real_au |-> 3870, real_radius_km |-> 2439,
        period_days |-> 88, eccentricity |-> 2060, inclination |-> 7000,
        axial_tilt |-> 30, rotation_hours |-> 14076, start_angle |-> 94900],
       [name |-> "venus", real_au |-> 7230, real_radius_km |-> 6052,
        period_days |-> 225, eccentricity |-> 70, inclination |-> 3400,
        axial_tilt |-> 177400, rotation_hours |-> 58325, start_angle |-> 276300],
       [name |-> "earth", real_au |-> 10000, real_radius_km |-> 6371,
        period_days |-> 365, eccentricity |-> 170, inclination |-> 0,
        axial_tilt |-> 23400, rotation_hours |-> 240, start_angle |-> 268900],
       [name |-> "mars", real_au |-> 15240, real_radius_km |-> 3389,
        period_days |-> 687, eccentricity |-> 930, inclination |-> 1900,
        axial_tilt |-> 25200, rotation_hours |-> 246, start_angle |-> 134600],
       [name |-> "jupiter", real_au |-> 52030, real_radius_km |-> 69911,
        period_days |-> 4333, eccentricity |-> 480, inclination |-> 1300,
        axial_tilt |-> 3100, rotation_hours |-> 99, start_angle |-> 172100],
       [name |-> "saturn", real_au |-> 95370, real_radius_km |-> 58232,
        period_days |-> 10759, eccentricity |-> 540, inclination |-> 2500,
        axial_tilt |-> 26700, rotation_hours |-> 107, start_angle |-> 106100],
       [name |-> "uranus", real_au |-> 191910, real_radius_km |-> 25362,
        period_days |-> 30687, eccentricity |-> 460, inclination |-> 800,
        axial_tilt |-> 97800, rotation_hours |-> 172, start_angle |-> 334000],
       [name |-> "neptune", real_au |-> 300690, real_radius_km |-> 24622,
        period_days |-> 60190, eccentricity |-> 90, inclination |-> 1800,
        axial_tilt |-> 28300, rotation_hours |-> 161, start_angle |-> 313600] >>

NumPlanets == Len(planets)

PlanetNames == {planets[p].name : p \in 1..NumPlanets}

\* The index of the planet called n.
PlanetIndex(n) == CHOOSE p \in 1..NumPlanets : planets[p].name = n

\* compression = 0.6, as the fraction num / den.
compression == <<6, 10>>

base_scale == 8

\* The reciprocal power: au ** (-compression).
InverseCompressedAu(au) == Pow(au, -compression[1], compression[2])

\* au ** compression.
CompressedAu(au) == Pow(au, compression[1], compression[2])

\* calculate_distance(au): base_scale * (au ** compression).
calculate_distance(au) == base_scale * CompressedAu(au)

earth_radius_km == 6371

\* earth_size_maya = 0.5.
earth_size_maya == Scale \div 2

\* size_compression = 0.7, as the fraction num / den.
size_compression == <<7, 10>>

\* (radius_km / earth_radius_km) ** (size_compression - 1).
SizeFalloff(radius_km) ==
    Pow(MulDiv(radius_km, Scale, earth_radius_km),
        size_compression[1] - size_compression[2], size_compression[2])

\* calculate_planet_size(radius_km), with scale_factor =
\* earth_size_maya / earth_radius_km applied as a fraction.
calculate_planet_size(radius_km) ==
    With(radius_km, LAMBDA km :
        FMul(MulDiv(km, earth_size_maya, earth_radius_km), SizeFalloff(km)))

num_points == 100

\* The circle of radius semi_major: the polar equation with e = 0.
CircularRadius(semi_major, e, angle) == semi_major

\* The polar equation of the ellipse with the sun at a focus:
\* r = semi_major * (1 - e**2) / (1 + e * cos(angle)).
OrbitRadius(semi_major, e, angle) ==
    With(e, LAMBDA ecc :
        FDiv(MulDiv(semi_major, Scale * Scale - ecc * ecc, Scale * Scale),
             Scale + FMul(ecc, Cos(angle))))

\* One sample of an orbit curve: the point for loop index i, with the radius
\* it was computed from.
OrbitPoint(semi_major, e, i) ==
    With(MulDiv(i, TwoPi, num_points), LAMBDA angle :
    With(OrbitRadius(semi_major, e, angle), LAMBDA r :
        [x |-> FMul(r, Cos(angle)), y |-> 0, z |-> FMul(r, Sin(angle)),
         r |-> r]))

\* orbit_points after the sampling loop: indices 0 .. num_points.
OrbitPoints(semi_major, e) ==
    With(<<semi_major, e>>, LAMBDA v :
        [j \in 1..(num_points + 1) |-> OrbitPoint(v[1], v[2], j - 1)])

frames_per_earth_year == 1000

\* frame = 1 + (idx / n) * frames_per_earth_year, in milliframes.
KeyFrameFullRange(idx, n) ==
    Milli + MulDiv(idx, frames_per_earth_year * Milli, n)

\* frame = 1 + (idx / n) * (frames_per_earth_year - 1), in milliframes.
KeyFrame(idx, n) ==
    Milli + MulDiv(idx, (frames_per_earth_year - 1) * Milli, n)

\* frame = 1 + int((idx / n) * (frames_per_earth_year - 1)), in milliframes.
KeyFrameInt(idx, n) ==
    Milli * (1 + IntTrunc(idx * (frames_per_earth_year - 1), n))

\* Days of the animated range, in hundredths: 365.25.
DaysPerYear == 36525

\* total_rotation = 360 * (365.25 / period_days), in millidegrees.
PlanetTotalRotation(period_days) ==
    MulDiv(360 * Milli, DaysPerYear, 100 * period_days)

\* start + (idx / n) * total_rotation: the opposite sense of revolution.
OrbitAngleOppositeSense(start, idx, n, total_rotation) ==
    start + MulDiv(idx, total_rotation, n)

\* start - (idx / n) * total_rotation, in millidegrees.
OrbitAngle(start, idx, n, total_rotation) ==
    start - MulDiv(idx, total_rotation, n)

\* One Newton update for Kepler's equation E - e sin E = M.
NewtonStep(E, e, M) ==
    With(<<E, e>>, LAMBDA v :
        v[1] - FDiv(v[1] - FMul(v[2], Sin(v[1])) - M,
                    Scale - FMul(v[2], Cos(v[1]))))

RECURSIVE NewtonIterate(_, _, _, _)
NewtonIterate(E, e, M, n) ==
    IF n = 0 THEN E
    ELSE With(NewtonStep(E, e, M), LAMBDA E1 : NewtonIterate(E1, e, M, n - 1))

NewtonIterations == 5

\* The mean anomaly itself, as for a circular orbit: E = M.
MeanAnomalyAsEccentric(M, e) == M

\* The enhanced script's eccentric anomaly: E = M, then range(5) updates.
EccentricAnomaly(M, e) ==
    With(M, LAMBDA m : NewtonIterate(m, e, m, NewtonIterations))

\* The maya holder script's eccentric anomaly: E = M + e sin M.
HolderEccentricAnomaly(M, e) == With(M, LAMBDA m : m + FMul(e, Sin(m)))

\* true_anomaly = 2 atan2(sqrt(1+e) sin(E/2), sqrt(1-e) cos(E/2)).
TrueAnomaly(E, e) ==
    With(IntTrunc(E, 2), LAMBDA half :
        2 * Atan2(FMul(FSqrt(Scale + e), Sin(half)),
                  FMul(FSqrt(Scale - e), Cos(half))))

\* The enhanced script's planet position for mean anomaly mean_anomaly
\* (millidegrees): Kepler's equation, true anomaly, polar ellipse, inclination.
PlanetPosition(pl, mean_anomaly) ==
    With(calculate_distance(pl.real_au), LAMBDA semi_major :
    With(Radians(mean_anomaly), LAMBDA M :
    With(EccentricAnomaly(M, pl.eccentricity), LAMBDA E :
    With(TrueAnomaly(E, pl.eccentricity), LAMBDA nu :
    With(OrbitRadius(semi_major, pl.eccentricity, nu), LAMBDA r :
    With(FMul(r, Sin(nu)), LAMBDA z_flat :
    With(Radians(pl.inclination), LAMBDA inc :
        [M |-> M, E |-> E, r |-> r, x |-> FMul(r, Cos(nu)),
         y |-> -FMul(z_flat, Sin(inc)), z |-> FMul(z_flat, Cos(inc))])))))))

\* The maya holder script's planet position: parametric ellipse offset by the
\* focal distance, inclination.
HolderPlanetPosition(pl, mean_anomaly) ==
    With(calculate_distance(pl.real_au), LAMBDA semi_major :
    With(pl.eccentricity, LAMBDA e :
    With(FMul(semi_major, FSqrt(Scale - FMul(e, e))), LAMBDA semi_minor :
    With(Radians(mean_anomaly), LAMBDA M :
    With(HolderEccentricAnomaly(M, e), LAMBDA E :
    With(FMul(semi_minor, Sin(E)), LAMBDA z :
    With(Radians(pl.inclination), LAMBDA inc :
        [M |-> M, E |-> E, r |-> 0,
         x |-> FMul(semi_major, Cos(E)) - FMul(semi_major, e),
         y |-> FMul(z, Sin(inc)), z |-> FMul(z, Cos(inc))])))))))

\* Hours of the animated range, in tenths: 365.25 * 24.
hours_per_earth_year == 87660

\* total_rotation_degrees = 360 * (hours_per_earth_year / rotation_hours), in
\* tenths of a degree (rotation_hours in tenths of an hour).
TotalRotationDegrees(rotation_hours) ==
    MulDiv(360 * 10, hours_per_earth_year, rotation_hours)

\* The rotateY value with the same sense of rotation for every planet.
SpinValueSameSense(name, rotation_hours) ==
    TotalRotationDegrees(rotation_hours)

\* The rotateY value keyed at the last frame.
SpinValue(name, rotation_hours) ==
    IF name = "venus" THEN -TotalRotationDegrees(rotation_hours)
    ELSE TotalRotationDegrees(rotation_hours)


(***************************************************************************)
(* random: the generator is a source of samples u / RandGrid in [0, 1].   *)
(* Which sample a call returns is a function of the generator's state     *)
(* (rngPhase, fixed when the interpreter starts, and the position rngPos  *)
(* in the stream, reset by random.seed); every phase is explored.         *)
(***************************************************************************)
RandGrid == 2

VARIABLES variant, pc, i, k, rngPhase, rngPos, objects, planet_nodes, orbits,
          orbit_points, playback, current_time, stars, asteroid_count,
          asteroid_data, ast_anim, keys, rot_keys, tangents, moon_keys,
          cam_keys, loc

vars == <<variant, pc, i, k, rngPhase, rngPos, objects, planet_nodes, orbits,
          orbit_points, playback, current_time, stars, asteroid_count,
          asteroid_data, ast_anim, keys, rot_keys, tangents, moon_keys,
          cam_keys, loc>>

\* The sample at stream position pos.
Draw(pos) == (rngPhase + pos + pos \div (RandGrid + 1)) % (RandGrid + 1)

\* random.uniform(a, b) at stream position pos: a + (b - a) * random().
Uniform(a, b, pos) == a + ((b - a) * Draw(pos)) \div RandGrid

\* random.seed(n): the stream position n selects.
Seed(n) == n

Init ==
    /\ variant \in {"enhanced", "holder"}
    /\ pc = "start"
    /\ i = 0
    /\ k = 0
    /\ rngPhase \in 0..RandGrid
    /\ rngPos = 0
    /\ objects = {}
    /\ planet_nodes = <<>>
    /\ orbits = <<>>
    /\ orbit_points = <<>>
    /\ playback = <<>>
    /\ current_time = Milli
    /\ stars = 0
    /\ asteroid_count = 0
    /\ asteroid_data = <<>>
    /\ ast_anim = <<>>
    /\ keys = [n \in PlanetNames |-> <<>>]
    /\ rot_keys = [n \in PlanetNames |-> <<>>]
    /\ tangents = {}
    /\ moon_keys = <<>>
    /\ cam_keys = <<>>
    /\ loc = [op |-> "none"]

(***************************************************************************)
(* The enhanced script, lines 1-590.                                       *)
(***************************************************************************)

\* Lines 5-40: clear the scene, create the group, the skydome light, the sun.
CreateSun ==
    /\ variant = "enhanced" /\ pc = "start"
    /\ objects' = {<<"group", "solar_system">>, <<"light", "skydome_light">>,
                   <<"sphere", "sun">>}
    /\ pc' = "planets"
    /\ i' = 0
    /\ UNCHANGED <<variant, k, rngPhase, rngPos, planet_nodes, orbits,
                   orbit_points, playback, current_time, stars,
                   asteroid_count, asteroid_data, ast_anim, keys, rot_keys,
                   tangents, moon_keys, cam_keys, loc>>

\* The nodes one iteration of the planet loop adds to the scene.
PlanetObjects(name) ==
    {<<"sphere", name>>, <<"label", name>>, <<"locator", name>>,
     <<"curve", name>>}
    \cup (IF name = "saturn" THEN {<<"torus", "saturn_ring">>} ELSE {})

\* Lines 72-188: one iteration of the planet loop: the sphere, its tilt, its
\* label, its orbit curve and, for saturn, the ring.
CreatePlanet ==
    /\ variant = "enhanced" /\ pc = "planets" /\ i < NumPlanets
    /\ \E pl \in {planets[i + 1]} :
       \E semi_major \in {calculate_distance(pl.real_au)} :
       \E size \in {calculate_planet_size(pl.real_radius_km)} :
           /\ planet_nodes' = Append(planet_nodes,
                  [name |-> pl.name, size |-> size, tilt |-> pl.axial_tilt])
           /\ orbit_points' = OrbitPoints(semi_major, pl.eccentricity)
           /\ orbits' = Append(orbits,
                  [name |-> pl.name, semi_major |-> semi_major,
                   eccentricity |-> pl.eccentricity,
                   npoints |-> num_points + 1, rotateX |-> pl.inclination])
           /\ objects' = objects \cup PlanetObjects(pl.name)
           /\ loc' = [op |-> "planet", name |-> pl.name,
                      semi_major |-> semi_major, size |-> size]
    /\ IF i + 1 < NumPlanets
       THEN /\ i' = i + 1 /\ pc' = pc
       ELSE /\ i' = 0 /\ pc' = "range"
    /\ UNCHANGED <<variant, k, rngPhase, rngPos, playback, current_time,
                   stars, asteroid_count, asteroid_data, ast_anim, keys,
                   rot_keys, tangents, moon_keys, cam_keys>>

num_stars == 1800

star_distance == 120

\* Lines 190-197: the playback range, and the seed of the star field.
SetAnimationRange ==
    /\ variant = "enhanced" /\ pc = "range"
    /\ playback' = <<1, frames_per_earth_year>>
    /\ rngPos' = Seed(123)
    /\ pc' = "stars"
    /\ i' = 0
    /\ UNCHANGED <<variant, k, rngPhase, objects, planet_nodes, orbits,
                   orbit_points, current_time, stars, asteroid_count,
                   asteroid_data, ast_anim, keys, rot_keys, tangents,
                   moon_keys, cam_keys, loc>>

\* Lines 199-219: one background star, star_<i>, on the sphere of radius
\* star_distance (five samples are drawn).
CreateStar ==
    /\ variant = "enhanced" /\ pc = "stars" /\ i < num_stars
    /\ \E theta \in {Uniform(0, TwoPi, rngPos)} :
       \E phi \in {Uniform(0, Pi, rngPos + 1)} :
       \E small \in {10 * Draw(rngPos + 2) < 9 * RandGrid} :
       \E size \in
              {IF small THEN Uniform(500, 1500, rngPos + 3)
               ELSE Uniform(1500, 3000, rngPos + 3)} :
           loc' = [op |-> "star", index |-> i,
                   x |-> star_distance * FMul(Sin(phi), Cos(theta)),
                   y |-> star_distance * FMul(Sin(phi), Sin(theta)),
                   z |-> star_distance * Cos(phi),
                   size |-> size]
    /\ stars' = stars + 1
    /\ rngPos' = rngPos + 5
    /\ IF i + 1 < num_stars
       THEN /\ i' = i + 1 /\ pc' = pc
       ELSE /\ i' = 0 /\ pc' = "belt"
    /\ UNCHANGED <<variant, k, rngPhase, objects, planet_nodes, orbits,
                   orbit_points, playback, current_time, asteroid_count,
                   asteroid_data, ast_anim, keys, rot_keys, tangents,
                   moon_keys, cam_keys>>

\* An inner edge of 1.2 AU, inside the orbit of mars.
InnerEdgeInsideMars == (12 * Scale) \div 10

\* asteroid_belt_inner_au = 2.2 and asteroid_belt_outer_au = 3.2.
asteroid_belt_inner_au == (22 * Scale) \div 10

asteroid_belt_outer_au == (32 * Scale) \div 10

num_asteroids == 300

\* mars_distance and jupiter_distance.
mars_distance == calculate_distance(15240)

jupiter_distance == calculate_distance(52030)

\* Lines 221-232: the belt's limits and the seed of the asteroid belt.
BeginAsteroidBelt ==
    /\ variant = "enhanced" /\ pc = "belt"
    /\ rngPos' = Seed(456)
    /\ asteroid_data' = <<>>
    /\ pc' = "asteroids"
    /\ i' = 0
    /\ UNCHANGED <<variant, k, rngPhase, objects, planet_nodes, orbits,
                   orbit_points, playback, current_time, stars,
                   asteroid_count, ast_anim, keys, rot_keys, tangents,
                   moon_keys, cam_keys, loc>>

\* The samples one iteration of the asteroid loop draws: distance_au,
\* start_angle, inclination_variation, y, asteroid_size, shape_type, three
\* rotations, three colours.
DrawsPerAsteroid == 5 + 1 + 3 + 3

\* Lines 234-288: one asteroid, asteroid_<i>, and its asteroid_data entry.
CreateAsteroid ==
    /\ variant = "enhanced" /\ pc = "asteroids" /\ i < num_asteroids
    /\ \E distance_au \in
              {Uniform(asteroid_belt_inner_au,
               asteroid_belt_outer_au, rngPos)} :
       \E distance \in {calculate_distance(distance_au)} :
       \E start_angle \in {Uniform(0, 360 * Milli, rngPos + 1)} :
       \E inclination \in {Uniform(-2 * Milli, 2 * Milli, rngPos + 2)} :
       \E angle_rad \in {Radians(start_angle)} :
       \E y \in {Uniform(-(Scale \div 5), Scale \div 5, rngPos + 3)} :
           /\ asteroid_data' = Append(asteroid_data,
                  [index |-> i, distance |-> distance,
                   distance_au |-> distance_au, start_angle |-> start_angle,
                   y_offset |-> y, inclination |-> inclination])
           /\ loc' = [op |-> "asteroid", index |-> i,
                      distance_au |-> distance_au, distance |-> distance,
                      x |-> FMul(distance, Cos(angle_rad)), y |-> y,
                      z |-> FMul(distance, Sin(angle_rad))]
    /\ asteroid_count' = asteroid_count + 1
    /\ rngPos' = rngPos + DrawsPerAsteroid
    /\ IF i + 1 < num_asteroids
       THEN /\ i' = i + 1 /\ pc' = pc
       ELSE /\ i' = 0 /\ pc' = "animate_asteroids"
    /\ UNCHANGED <<variant, k, rngPhase, objects, planet_nodes, orbits,
                   orbit_points, playback, current_time, stars, ast_anim,
                   keys, rot_keys, tangents, moon_keys, cam_keys>>

\* period_earth_years = sqrt(distance_au ** 3); total_rotation =
\* 360 * (1.0 / period_earth_years), in millidegrees.
AsteroidTotalRotation(distance_au) ==
    With(distance_au, LAMBDA au :
    With(FSqrt(FMul(FMul(au, au), au)), LAMBDA period_earth_years :
        MulDiv(360 * Milli, FDiv(Scale, period_earth_years), Scale)))

asteroid_keyframes == 20

\* Lines 291-324: one keyframe of one asteroid: circular motion at its
\* distance, tilted by its inclination.
AsteroidKeyframe ==
    /\ variant = "enhanced" /\ pc = "animate_asteroids"
    /\ k <= asteroid_keyframes
    /\ \E a \in {i} :
       \E kk \in {k} :
       \E info \in {asteroid_data[a + 1]} :
       \E total \in {AsteroidTotalRotation(info.distance_au)} :
       \E frame \in {KeyFrame(kk, asteroid_keyframes)} :
       \E current_angle \in
              {OrbitAngle(info.start_angle, kk, asteroid_keyframes, total)} :
       \E angle_rad \in {Radians(current_angle)} :
       \E x \in {FMul(info.distance, Cos(angle_rad))} :
       \E z \in {FMul(info.distance, Sin(angle_rad))} :
       \E inc \in {Radians(info.inclination)} :
       \E y \in {info.y_offset - FMul(z, Sin(inc))} :
       \E zt \in {FMul(z, Cos(inc))} :
       \E old \in
              {IF kk = 0 THEN [n |-> 0, first |-> frame, last |-> frame,
               tangent |-> "auto"]
               ELSE ast_anim[a + 1]} :
       \E new \in {[old EXCEPT !.n = old.n + 1, !.last = frame]} :
           /\ ast_anim' = IF kk = 0 THEN Append(ast_anim, new)
                          ELSE [ast_anim EXCEPT ![a + 1] = new]
           /\ current_time' = frame
           /\ loc' = [op |-> "asteroid_key", index |-> info.index, k |-> kk,
                      frame |-> frame, angle |-> current_angle,
                      total_rotation |-> total, distance |-> info.distance,
                      x |-> x, y |-> y, z |-> zt]
           /\ k' = kk + 1
    /\ UNCHANGED <<variant, pc, i, rngPhase, rngPos, objects, planet_nodes, orbits,
                   orbit_points, playback, stars, asteroid_count,
                   asteroid_data, keys, rot_keys, tangents, moon_keys,
                   cam_keys>>

\* Lines 326-329: linear tangents on the asteroid's translation keys; the
\* loop moves to the next asteroid.
AsteroidTangents ==
    /\ variant = "enhanced" /\ pc = "animate_asteroids"
    /\ k = asteroid_keyframes + 1
    /\ ast_anim' = [ast_anim EXCEPT ![i + 1].tangent = "linear"]
    /\ IF i + 1 < num_asteroids
       THEN /\ i' = i + 1 /\ k' = 0 /\ pc' = pc
       ELSE /\ i' = 0 /\ k' = 0 /\ pc' = "animate_planets"
    /\ UNCHANGED <<variant, rngPhase, rngPos, objects, planet_nodes, orbits,
                   orbit_points, playback, current_time, stars,
                   asteroid_count, asteroid_data, keys, rot_keys, tangents,
                   moon_keys, cam_keys, loc>>


planet_keyframes == 40

\* Lines 332-366: one translation keyframe of one planet.
PlanetKeyframe ==
    /\ variant = "enhanced" /\ pc = "animate_planets"
    /\ k <= planet_keyframes
    /\ \E pl \in {planets[i + 1]} :
       \E total \in {PlanetTotalRotation(pl.period_days)} :
       \E frame \in {KeyFrame(k, planet_keyframes)} :
       \E mean_anomaly \in
              {OrbitAngle(pl.start_angle, k, planet_keyframes, total)} :
       \E pos \in {PlanetPosition(pl, mean_anomaly)} :
           /\ keys' = [keys EXCEPT ![pl.name] = Append(@,
                  [frame |-> frame, x |-> pos.x, y |-> pos.y, z |-> pos.z])]
           /\ current_time' = frame
           /\ loc' = [op |-> "planet_key", name |-> pl.name, k |-> k,
                      frame |-> frame, angle |-> mean_anomaly,
                      total_rotation |-> total, M |-> pos.M, E |-> pos.E,
                      e |-> pl.eccentricity,
                      x |-> pos.x, y |-> pos.y, z |-> pos.z]
    /\ k' = k + 1
    /\ UNCHANGED <<variant, pc, i, rngPhase, rngPos, objects, planet_nodes,
                   orbits, orbit_points, playback, stars, asteroid_count,
                   asteroid_data, ast_anim, rot_keys, tangents, moon_keys,
                   cam_keys>>

\* Lines 368-389: spline tangents on the planet's translation keys, and its
\* axial rotation: rotateY keyed at frame 1 and at the last frame, linear.
PlanetSpin ==
    /\ variant = "enhanced" /\ pc = "animate_planets"
    /\ k = planet_keyframes + 1
    /\ \E pl \in {planets[i + 1]} :
           /\ rot_keys' = [rot_keys EXCEPT ![pl.name] =
                  <<[frame |-> Milli, value |-> 0],
                    [frame |-> frames_per_earth_year * Milli,
                     value |-> SpinValue(pl.name, pl.rotation_hours)]>>]
           /\ tangents' = tangents \cup {<<pl.name, "translate", "spline">>,
                                         <<pl.name, "rotateY", "linear">>}
    /\ current_time' = frames_per_earth_year * Milli
    /\ IF i + 1 < NumPlanets
       THEN /\ i' = i + 1 /\ k' = 0 /\ pc' = pc
       ELSE /\ i' = 0 /\ k' = 0 /\ pc' = "moon"
    /\ UNCHANGED <<variant, rngPhase, rngPos, objects, planet_nodes, orbits,
                   orbit_points, playback, stars, asteroid_count,
                   asteroid_data, ast_anim, keys, moon_keys, cam_keys, loc>>

\* moon_distance = 0.8, moon_orbital_period = 27.3 (in hundredths of a day),
\* moon_inclination = 5.1 (millidegrees).
moon_distance == (8 * Scale) \div 10

moon_orbital_period == 2730

moon_inclination == 5100

\* num_moon_keyframes = int(frames_per_earth_year / 10).
num_moon_keyframes == IntTrunc(frames_per_earth_year, 10)

\* Lines 391-454: the moon, its label, and the constants of its animation.
CreateMoon ==
    /\ variant = "enhanced" /\ pc = "moon"
    /\ objects' = objects \cup {<<"sphere", "moon">>, <<"label", "moon">>,
                                <<"locator", "moon">>}
    /\ loc' = [op |-> "moon",
               size |-> MulDiv(calculate_planet_size(earth_radius_km),
                               2725, Scale)]
    /\ pc' = "moon_keys"
    /\ i' = 0
    /\ UNCHANGED <<variant, k, rngPhase, rngPos, planet_nodes, orbits,
                   orbit_points, playback, current_time, stars,
                   asteroid_count, asteroid_data, ast_anim, keys, rot_keys,
                   tangents, moon_keys, cam_keys>>

\* The index of the last key of ks at or before frame f (ks is in frame order
\* and its first key is at or before f).
RECURSIVE KeyBefore(_, _, _)
KeyBefore(ks, f, j) ==
    IF j < Len(ks) /\ ks[j + 1].frame <= f THEN KeyBefore(ks, f, j + 1) ELSE j

\* cmds.xform(node, query=True, worldSpace=True, translation=True) at time f
\* for a node with translation keys ks: the host evaluates the animation
\* curves; between two keys the value is interpolated linearly here.
PositionAt(ks, f) ==
    With(KeyBefore(ks, f, 1), LAMBDA j :
    With(ks[j], LAMBDA a :
        IF j = Len(ks) \/ a.frame = f THEN [x |-> a.x, y |-> a.y, z |-> a.z]
        ELSE With(<<ks[j + 1], f - a.frame>>, LAMBDA b :
                 [x |-> a.x + MulDiv(b[1].x - a.x, b[2], b[1].frame - a.frame),
                  y |-> a.y + MulDiv(b[1].y - a.y, b[2], b[1].frame - a.frame),
                  z |-> a.z + MulDiv(b[1].z - a.z, b[2],
                                     b[1].frame - a.frame)])))

\* total_moon_rotation = 360 * (365.25 / moon_orbital_period), millidegrees.
total_moon_rotation ==
    MulDiv(360 * Milli, DaysPerYear, moon_orbital_period)

\* Lines 456-477: one keyframe of the moon, around the earth's position.
MoonKeyframe ==
    /\ variant = "enhanced" /\ pc = "moon_keys"
    /\ \E frame \in {KeyFrameInt(i, num_moon_keyframes)} :
       \E earth_pos \in {PositionAt(keys["earth"], frame)} :
       \E angle \in
              {OrbitAngle(0, i, num_moon_keyframes,
               total_moon_rotation)} :
       \E angle_rad \in {Radians(angle)} :
       \E local_x \in {FMul(moon_distance, Cos(angle_rad))} :
       \E local_z \in {FMul(moon_distance, Sin(angle_rad))} :
       \E inc \in {Radians(moon_inclination)} :
       \E key \in
              {[frame |-> frame,
               x |-> earth_pos.x + local_x,
               y |-> earth_pos.y + FMul(local_z, Sin(inc)),
               z |-> earth_pos.z + FMul(local_z, Cos(inc))]} :
           /\ moon_keys' = Append(moon_keys, key)
           /\ current_time' = frame
           /\ loc' = [op |-> "moon_key", k |-> i, frame |-> frame,
                      angle |-> angle,
                      total_rotation |-> total_moon_rotation,
                      x |-> key.x, y |-> key.y, z |-> key.z]
    /\ IF i < num_moon_keyframes
       THEN /\ i' = i + 1 /\ pc' = pc
       ELSE /\ i' = 0 /\ pc' = "camera"
    /\ UNCHANGED <<variant, k, rngPhase, rngPos, objects, planet_nodes,
                   orbits, orbit_points, playback, stars, asteroid_count,
                   asteroid_data, ast_anim, keys, rot_keys, tangents,
                   cam_keys>>

\* camera_distance_behind = 25.0 and camera_height_offset = 5.0.
camera_distance_behind == 25 * Scale

camera_height_offset == 5 * Scale

num_camera_keyframes == 50

\* Lines 479-492: spline tangents on the moon's keys; the camera node.
CreateCamera ==
    /\ variant = "enhanced" /\ pc = "camera"
    /\ tangents' = tangents \cup {<<"moon", "translate", "spline">>}
    /\ objects' = objects \cup {<<"camera", "earth_orbit_camera">>}
    /\ pc' = "camera_keys"
    /\ i' = 0
    /\ UNCHANGED <<variant, k, rngPhase, rngPos, planet_nodes, orbits,
                   orbit_points, playback, current_time, stars,
                   asteroid_count, asteroid_data, ast_anim, keys, rot_keys,
                   moon_keys, cam_keys, loc>>

\* next_i = (i + 1) % (num_camera_keyframes + 1).
NextCameraIndex(idx) == (idx + 1) % (num_camera_keyframes + 1)

\* Lines 495-526: one keyframe of the camera: the earth's position at the
\* key's frame and at the next key's frame give the direction (dx, dz); the
\* camera is put camera_distance_behind against it, camera_height_offset up.
CameraKeyframe ==
    /\ variant = "enhanced" /\ pc = "camera_keys"
    /\ \E frame \in {KeyFrameInt(i, num_camera_keyframes)} :
       \E earth_pos \in {PositionAt(keys["earth"], frame)} :
       \E next_i \in {NextCameraIndex(i)} :
       \E next_frame \in {KeyFrameInt(next_i, num_camera_keyframes)} :
       \E earth_next \in {PositionAt(keys["earth"], next_frame)} :
       \E dx0 \in {earth_next.x - earth_pos.x} :
       \E dz0 \in {earth_next.z - earth_pos.z} :
       \E length \in {FSqrt(FMul(dx0, dx0) + FMul(dz0, dz0))} :
       \E dx \in {IF length > 0 THEN FDiv(dx0, length) ELSE dx0} :
       \E dz \in {IF length > 0 THEN FDiv(dz0, length) ELSE dz0} :
       \E key \in
              {[frame |-> frame,
               x |-> earth_pos.x - FMul(dx, camera_distance_behind),
               y |-> earth_pos.y + camera_height_offset,
               z |-> earth_pos.z - FMul(dz, camera_distance_behind)]} :
           /\ cam_keys' = Append(cam_keys, key)
           /\ current_time' = frame
           /\ loc' = [op |-> "camera_key", k |-> i, frame |-> frame,
                      next_i |-> next_i, next_frame |-> next_frame,
                      earth_pos |-> earth_pos, earth_next_pos |-> earth_next,
                      dx |-> dx, dz |-> dz, length |-> length,
                      x |-> key.x, y |-> key.y, z |-> key.z]
    /\ IF i < num_camera_keyframes
       THEN /\ i' = i + 1 /\ pc' = pc
       ELSE /\ i' = 0 /\ pc' = "finalize"
    /\ UNCHANGED <<variant, k, rngPhase, rngPos, objects, planet_nodes,
                   orbits, orbit_points, playback, stars, asteroid_count,
                   asteroid_data, ast_anim, keys, rot_keys, tangents,
                   moon_keys>>

\* Lines 528-570: spline tangents on the camera's keys, the aim constraints,
\* the view through the camera, the time set back to frame 1.
Finalize ==
    /\ variant = "enhanced" /\ pc = "finalize"
    /\ tangents' = tangents \cup {<<"camera", "translate", "spline">>}
    /\ objects' = objects \cup {<<"aim", "earth_orbit_camera">>}
    /\ current_time' = Milli
    /\ pc' = "done"
    /\ UNCHANGED <<variant, i, k, rngPhase, rngPos, planet_nodes, orbits,
                   orbit_points, playback, stars, asteroid_count,
                   asteroid_data, ast_anim, keys, rot_keys, moon_keys,
                   cam_keys, loc>>


(***************************************************************************)
(* The maya holder script, lines 592-925.                                  *)
(***************************************************************************)

\* Lines 596-612: clear the scene, create the group and the sun.
HolderCreateSun ==
    /\ variant = "holder" /\ pc = "start"
    /\ objects' = {<<"group", "solar_system">>, <<"sphere", "sun">>}
    /\ pc' = "planets"
    /\ i' = 0
    /\ UNCHANGED <<variant, k, rngPhase, rngPos, planet_nodes, orbits,
                   orbit_points, playback, current_time, stars,
                   asteroid_count, asteroid_data, ast_anim, keys, rot_keys,
                   tangents, moon_keys, cam_keys, loc>>

\* The nodes of a maya holder planet without its orbit curve.
HolderPlanetObjectsWithoutCurve(name) == {<<"sphere", name>>}

\* The nodes one iteration of the maya holder planet loop adds.
HolderPlanetObjects(name) ==
    {<<"sphere", name>>, <<"curve", name>>}
    \cup (IF name = "saturn" THEN {<<"torus", "saturn_ring">>} ELSE {})

\* Lines 657-733: one iteration of the planet loop: the sphere, its tilt, its
\* orbit curve, the printed perihelion and aphelion and, for saturn, the ring.
HolderCreatePlanet ==
    /\ variant = "holder" /\ pc = "planets" /\ i < NumPlanets
    /\ \E pl \in {planets[i + 1]} :
       \E semi_major \in {calculate_distance(pl.real_au)} :
       \E size \in {calculate_planet_size(pl.real_radius_km)} :
           /\ planet_nodes' = Append(planet_nodes,
                  [name |-> pl.name, size |-> size, tilt |-> pl.axial_tilt])
           /\ orbit_points' = OrbitPoints(semi_major, pl.eccentricity)
           /\ orbits' = Append(orbits,
                  [name |-> pl.name, semi_major |-> semi_major,
                   eccentricity |-> pl.eccentricity,
                   npoints |-> num_points + 1, rotateX |-> pl.inclination])
           /\ objects' = objects \cup HolderPlanetObjects(pl.name)
           /\ loc' = [op |-> "planet", name |-> pl.name,
                      semi_major |-> semi_major, size |-> size,
                      perihelion |-> FMul(semi_major, Scale - pl.eccentricity),
                      aphelion |-> FMul(semi_major, Scale + pl.eccentricity)]
    /\ IF i + 1 < NumPlanets
       THEN /\ i' = i + 1 /\ pc' = pc
       ELSE /\ i' = 0 /\ pc' = "moon"
    /\ UNCHANGED <<variant, k, rngPhase, rngPos, playback, current_time,
                   stars, asteroid_count, asteroid_data, ast_anim, keys,
                   rot_keys, tangents, moon_keys, cam_keys>>

\* Lines 735-744: the moon, a sphere of radius 0.14 left at (9.5, 0, 0).
HolderCreateMoon ==
    /\ variant = "holder" /\ pc = "moon"
    /\ objects' = objects \cup {<<"sphere", "moon">>}
    /\ loc' = [op |-> "moon", size |-> (14 * Scale) \div 100,
               x |-> (95 * Scale) \div 10, y |-> 0, z |-> 0]
    /\ pc' = "belt"
    /\ UNCHANGED <<variant, i, k, rngPhase, rngPos, planet_nodes, orbits,
                   orbit_points, playback, current_time, stars,
                   asteroid_count, asteroid_data, ast_anim, keys, rot_keys,
                   tangents, moon_keys, cam_keys>>

\* belt_inner = calculate_distance(2.2), belt_outer = calculate_distance(3.2).
belt_inner == calculate_distance((22 * Scale) \div 10)

belt_outer == calculate_distance((32 * Scale) \div 10)

holder_num_asteroids == 200

\* Lines 749-760: the belt's limits and the seed of the asteroid belt.
HolderBeginAsteroidBelt ==
    /\ variant = "holder" /\ pc = "belt"
    /\ rngPos' = Seed(42)
    /\ pc' = "asteroids"
    /\ i' = 0
    /\ UNCHANGED <<variant, k, rngPhase, objects, planet_nodes, orbits,
                   orbit_points, playback, current_time, stars,
                   asteroid_count, asteroid_data, ast_anim, keys, rot_keys,
                   tangents, moon_keys, cam_keys, loc>>

\* The samples one iteration of the maya holder asteroid loop draws:
\* distance, angle, asteroid_size, three scales, three rotations, y, gray,
\* brown.
HolderDrawsPerAsteroid == 3 + 3 + 3 + 3

\* Lines 762-803: one asteroid, asteroid_<i>, placed in the belt; it is not
\* animated.
HolderCreateAsteroid ==
    /\ variant = "holder" /\ pc = "asteroids" /\ i < holder_num_asteroids
    /\ \E distance \in {Uniform(belt_inner, belt_outer, rngPos)} :
       \E angle \in {Uniform(0, 360 * Milli, rngPos + 1)} :
       \E angle_rad \in {Radians(angle)} :
       \E y \in
              {Uniform(-((3 * Scale) \div 10), (3 * Scale) \div 10,
               rngPos + 9)} :
           loc' = [op |-> "asteroid", index |-> i, distance |-> distance,
                   x |-> FMul(distance, Cos(angle_rad)), y |-> y,
                   z |-> FMul(distance, Sin(angle_rad))]
    /\ asteroid_count' = asteroid_count + 1
    /\ rngPos' = rngPos + HolderDrawsPerAsteroid
    /\ IF i + 1 < holder_num_asteroids
       THEN /\ i' = i + 1 /\ pc' = pc
       ELSE /\ i' = 0 /\ pc' = "range"
    /\ UNCHANGED <<variant, k, rngPhase, objects, planet_nodes, orbits,
                   orbit_points, playback, current_time, stars,
                   asteroid_data, ast_anim, keys, rot_keys, tangents,
                   moon_keys, cam_keys>>

\* Lines 807-809: the playback range.
HolderSetAnimationRange ==
    /\ variant = "holder" /\ pc = "range"
    /\ playback' = <<1, frames_per_earth_year>>
    /\ pc' = "animate_planets"
    /\ i' = 0
    /\ k' = 0
    /\ UNCHANGED <<variant, rngPhase, rngPos, objects, planet_nodes, orbits,
                   orbit_points, current_time, stars, asteroid_count,
                   asteroid_data, ast_anim, keys, rot_keys, tangents,
                   moon_keys, cam_keys, loc>>

\* Lines 813-860: one translation keyframe of one planet.
HolderPlanetKeyframe ==
    /\ variant = "holder" /\ pc = "animate_planets"
    /\ k <= planet_keyframes
    /\ \E pl \in {planets[i + 1]} :
       \E total \in {PlanetTotalRotation(pl.period_days)} :
       \E frame \in {KeyFrame(k, planet_keyframes)} :
       \E mean_anomaly \in
              {OrbitAngle(pl.start_angle, k, planet_keyframes, total)} :
       \E pos \in {HolderPlanetPosition(pl, mean_anomaly)} :
           /\ keys' = [keys EXCEPT ![pl.name] = Append(@,
                  [frame |-> frame, x |-> pos.x, y |-> pos.y, z |-> pos.z])]
           /\ current_time' = frame
           /\ loc' = [op |-> "planet_key", name |-> pl.name, k |-> k,
                      frame |-> frame, angle |-> mean_anomaly,
                      total_rotation |-> total, M |-> pos.M, E |-> pos.E,
                      e |-> pl.eccentricity,
                      x |-> pos.x, y |-> pos.y, z |-> pos.z]
    /\ k' = k + 1
    /\ UNCHANGED <<variant, pc, i, rngPhase, rngPos, objects, planet_nodes,
                   orbits, orbit_points, playback, stars, asteroid_count,
                   asteroid_data, ast_anim, rot_keys, tangents, moon_keys,
                   cam_keys>>

\* Lines 862-891: spline tangents on the planet's translation keys, and its
\* axial rotation: rotateY keyed at frame 1 and at the last frame, linear.
HolderPlanetSpin ==
    /\ variant = "holder" /\ pc = "animate_planets"
    /\ k = planet_keyframes + 1
    /\ \E pl \in {planets[i + 1]} :
           /\ rot_keys' = [rot_keys EXCEPT ![pl.name] =
                  <<[frame |-> Milli, value |-> 0],
                    [frame |-> frames_per_earth_year * Milli,
                     value |-> SpinValue(pl.name, pl.rotation_hours)]>>]
           /\ tangents' = tangents \cup {<<pl.name, "translate", "spline">>,
                                         <<pl.name, "rotateY", "linear">>}
    /\ current_time' = frames_per_earth_year * Milli
    /\ IF i + 1 < NumPlanets
       THEN /\ i' = i + 1 /\ k' = 0 /\ pc' = pc
       ELSE /\ i' = 0 /\ k' = 0 /\ pc' = "finalize"
    /\ UNCHANGED <<variant, rngPhase, rngPos, objects, planet_nodes, orbits,
                   orbit_points, playback, stars, asteroid_count,
                   asteroid_data, ast_anim, keys, moon_keys, cam_keys, loc>>

\* Lines 895-897: select the group and frame the view.
HolderFinalize ==
    /\ variant = "holder" /\ pc = "finalize"
    /\ pc' = "done"
    /\ UNCHANGED <<variant, i, k, rngPhase, rngPos, objects, planet_nodes,
                   orbits, orbit_points, playback, current_time, stars,
                   asteroid_count, asteroid_data, ast_anim, keys, rot_keys,
                   tangents, moon_keys, cam_keys, loc>>

Next ==
    \/ CreateSun
    \/ CreatePlanet
    \/ SetAnimationRange
    \/ CreateStar
    \/ BeginAsteroidBelt
    \/ CreateAsteroid
    \/ AsteroidKeyframe
    \/ AsteroidTangents
    \/ PlanetKeyframe
    \/ PlanetSpin
    \/ CreateMoon
    \/ MoonKeyframe
    \/ CreateCamera
    \/ CameraKeyframe
    \/ Finalize
    \/ HolderCreateSun
    \/ HolderCreatePlanet
    \/ HolderCreateMoon
    \/ HolderBeginAsteroidBelt
    \/ HolderCreateAsteroid
    \/ HolderSetAnimationRange
    \/ HolderPlanetKeyframe
    \/ HolderPlanetSpin
    \/ HolderFinalize

Spec == Init /\ [][Next]_vars

(***************************************************************************)
(* Properties of the scene the scripts build.                             *)
(***************************************************************************)

\* What both scripts have built when they end: the sun, the eight planets
\* with one orbit curve each, the moon, n_asteroids asteroids, and for every
\* planet its translation keys and its two rotateY keys.
SceneBuilt(n_asteroids) ==
    /\ <<"sphere", "sun">> \in objects
    /\ <<"sphere", "moon">> \in objects
    /\ \A n \in PlanetNames :
          /\ <<"sphere", n>> \in objects
          /\ <<"curve", n>> \in objects
          /\ Len(keys[n]) = planet_keyframes + 1
          /\ Len(rot_keys[n]) = 2
    /\ Len(planet_nodes) = 8
    /\ Len(orbits) = 8
    /\ {orbits[j].name : j \in 1..Len(orbits)} = PlanetNames
    /\ asteroid_count = n_asteroids

\* C1 (as the code has it): when a script has run to completion the scene
\* holds the sun, the 8 planets, the moon, the asteroid belt and one orbit
\* curve per planet, and every planet has translation and rotateY keys; the
\* enhanced script has also made 1800 background stars, animated the moon and
\* keyed the chase camera, while the maya holder script has no background
\* stars, no camera and no camera keys, and leaves the moon without keys.
C1_SceneAtCompletion ==
    pc = "done" =>
        /\ variant = "enhanced" =>
              /\ SceneBuilt(300)
              /\ stars = 1800
              /\ Len(moon_keys) = 101
              /\ <<"camera", "earth_orbit_camera">> \in objects
              /\ Len(cam_keys) = 51
        /\ variant = "holder" =>
              /\ SceneBuilt(200)
              /\ stars = 0
              /\ moon_keys = <<>>
              /\ <<"camera", "earth_orbit_camera">> \notin objects
              /\ cam_keys = <<>>

\* C1 as stated: every variant ends with the sun, the planets, the moon, the
\* asteroid belt, the orbit curves, background stars, the planets' keys and
\* the keys of a chase camera.
C1_EveryVariantHasStarsAndCamera ==
    pc = "done" =>
        /\ SceneBuilt(asteroid_count)
        /\ asteroid_count > 0
        /\ stars > 0
        /\ <<"camera", "earth_orbit_camera">> \in objects
        /\ Len(cam_keys) > 0

\* The maya holder script has run to completion.
C1_HolderDone ==
    /\ variant = "holder" /\ pc = "done"
    /\ asteroid_count = holder_num_asteroids
    /\ stars = 0

\* C4: the playback range is [1, 1000]; in the enhanced script planet key k
\* is at frame 1 + (k/40)*999, asteroid key k at 1 + (k/20)*999, moon key i at
\* 1 + int((i/100)*999) and camera key i at 1 + int((i/50)*999); every key is
\* inside the range, the first at frame 1 and the last at frame 1000, with
\* 41, 21, 101 and 51 keys when the script ends.
C4_KeyframesInPlaybackRange ==
    variant = "enhanced" =>
        /\ pc \notin {"start", "planets", "range"} => playback = <<1, 1000>>
        /\ current_time >= Milli /\ current_time <= 1000 * Milli
        /\ \A n \in PlanetNames :
              /\ Len(keys[n]) <= 41
              /\ \A j \in 1..Len(keys[n]) :
                    /\ 40 * (keys[n][j].frame - Milli) = (j - 1) * 999 * Milli
                    /\ keys[n][j].frame >= Milli
                    /\ keys[n][j].frame <= 1000 * Milli
              /\ Len(keys[n]) = 41 => keys[n][41].frame = 1000 * Milli
        /\ \A a \in 1..Len(ast_anim) :
              /\ ast_anim[a].n >= 1 /\ ast_anim[a].n <= 21
              /\ ast_anim[a].first = Milli
              /\ 20 * (ast_anim[a].last - Milli)
                    = (ast_anim[a].n - 1) * 999 * Milli
              /\ ast_anim[a].last <= 1000 * Milli
        /\ loc.op = "asteroid_key" =>
              /\ 20 * (loc.frame - Milli) = loc.k * 999 * Milli
              /\ ast_anim[loc.index + 1].last = loc.frame
        /\ Len(moon_keys) <= 101
        /\ \A j \in 1..Len(moon_keys) :
              /\ moon_keys[j].frame = Milli * (1 + ((j - 1) * 999) \div 100)
              /\ moon_keys[j].frame >= Milli
              /\ moon_keys[j].frame <= 1000 * Milli
        /\ Len(moon_keys) = 101 => moon_keys[101].frame = 1000 * Milli
        /\ Len(cam_keys) <= 51
        /\ \A j \in 1..Len(cam_keys) :
              /\ cam_keys[j].frame = Milli * (1 + ((j - 1) * 999) \div 50)
              /\ cam_keys[j].frame >= Milli
              /\ cam_keys[j].frame <= 1000 * Milli
        /\ Len(cam_keys) = 51 => cam_keys[51].frame = 1000 * Milli
        /\ pc = "done" =>
              /\ \A n \in PlanetNames : Len(keys[n]) = 41
              /\ Len(ast_anim) = 300
              /\ \A a \in 1..Len(ast_anim) : ast_anim[a].n = 21
              /\ Len(moon_keys) = 101
              /\ Len(cam_keys) = 51

\* The enhanced script has set the last key of the camera, its last key.
C4_AllKeysSet ==
    /\ variant = "enhanced" /\ pc = "done"
    /\ Len(cam_keys) = num_camera_keyframes + 1
    /\ Len(ast_anim) = num_asteroids
    /\ playback = <<1, frames_per_earth_year>>

\* The square of the distance from the origin of the point (x, y, z).
RadiusSquared(x, y, z) == FMul(x, x) + FMul(y, y) + FMul(z, z)

\* calculate_distance(1.524) and calculate_distance(5.203).
MarsSceneDistance == calculate_distance(1524 * 10)

JupiterSceneDistance == calculate_distance(5203 * 10)

\* C7: the enhanced script creates exactly 300 asteroids, asteroid_0 ..
\* asteroid_299, each with distance_au in [2.2, 3.2], and each asteroid's
\* orbital radius calculate_distance(distance_au) is strictly greater than
\* calculate_distance(1.524) and strictly smaller than
\* calculate_distance(5.203), where it is created and at each of its keys.
C7_AsteroidsBetweenMarsAndJupiter ==
    variant = "enhanced" =>
        \E mars \in {MarsSceneDistance} :
        \E jupiter \in {JupiterSceneDistance} :
            /\ asteroid_count <= 300
            /\ Len(asteroid_data) = asteroid_count
            /\ pc \in {"animate_asteroids", "animate_planets", "moon",
                       "moon_keys", "camera", "camera_keys", "finalize",
                       "done"} => asteroid_count = 300
            /\ \A j \in 1..Len(asteroid_data) :
                  /\ asteroid_data[j].index = j - 1
                  /\ 10 * asteroid_data[j].distance_au >= 22 * Scale
                  /\ 10 * asteroid_data[j].distance_au <= 32 * Scale
                  /\ asteroid_data[j].distance > mars
                  /\ asteroid_data[j].distance < jupiter
            /\ loc.op = "asteroid" =>
                  /\ loc.distance = asteroid_data[loc.index + 1].distance
                  /\ RadiusSquared(loc.x, 0, loc.z) > FMul(mars, mars)
                  /\ RadiusSquared(loc.x, 0, loc.z) < FMul(jupiter, jupiter)
            /\ loc.op = "asteroid_key" =>
                  \E y_offset \in {asteroid_data[loc.index + 1].y_offset} :
                  \E r2 \in {RadiusSquared(loc.x, loc.y - y_offset, loc.z)} :
                      /\ loc.distance = asteroid_data[loc.index + 1].distance
                      /\ r2 > FMul(mars, mars)
                      /\ r2 < FMul(jupiter, jupiter)

\* The last key of the last asteroid has been set.
C7_LastAsteroidKey ==
    /\ variant = "enhanced"
    /\ loc.op = "asteroid_key"
    /\ loc.index = num_asteroids - 1
    /\ loc.k = asteroid_keyframes
    /\ asteroid_count = num_asteroids

\* C8: every planet of both scripts gets exactly two rotateY keys with
\* linear tangents: 0 at frame 1 and, at frame 1000, a value of magnitude
\* 360 * (365.25 * 24 / rotation_hours) degrees (in tenths of a degree,
\* rounded down), negative for venus and positive for the other seven.
C8_AxialRotationKeys ==
    /\ \A p \in 1..NumPlanets :
          \E n \in {planets[p].name} :
          \E hours \in {planets[p].rotation_hours} :
              rot_keys[n] # <<>> =>
                  /\ Len(rot_keys[n]) = 2
                  /\ rot_keys[n][1].frame = Milli
                  /\ rot_keys[n][1].value = 0
                  /\ rot_keys[n][2].frame = 1000 * Milli
                  /\ \E v \in {rot_keys[n][2].value} :
                        /\ Abs(v) * hours <= 3600 * 87660
                        /\ (Abs(v) + 1) * hours > 3600 * 87660
                        /\ n = "venus" => v < 0
                        /\ n # "venus" => v > 0
                  /\ <<n, "rotateY", "linear">> \in tangents
    /\ pc = "done" => \A n \in PlanetNames : rot_keys[n] # <<>>

\* Venus and a later planet have their rotateY keys.
C8_VenusAndMarsSpin ==
    /\ rot_keys["venus"] # <<>>
    /\ rot_keys["mars"] # <<>>
    /\ rot_keys["jupiter"] = <<>>

RadiusTolerance == 2

\* C10: when a planet's orbit curve has just been sampled (orbit_points is
\* that planet's list), it has 101 sample points, all with y = 0, whose radius
\* lies between the perihelion a(1 - e) and the aphelion a(1 + e), is the
\* perihelion at i = 0 and the aphelion at i = 50 (radii compared within
\* RadiusTolerance), and whose last point is the first point.
C10_OrbitCurveSamples ==
    loc.op = "planet" =>
        \E a \in {orbits[Len(orbits)].semi_major} :
        \E e \in {orbits[Len(orbits)].eccentricity} :
        \E perihelion \in {FMul(a, Scale - e)} :
        \E aphelion \in {FMul(a, Scale + e)} :
            /\ a = calculate_distance(planets[Len(orbits)].real_au)
            /\ e = planets[Len(orbits)].eccentricity
            /\ Len(orbit_points) = 101
            /\ \A j \in 1..Len(orbit_points) :
                  /\ orbit_points[j].y = 0
                  /\ orbit_points[j].r >= perihelion - RadiusTolerance
                  /\ orbit_points[j].r <= aphelion + RadiusTolerance
                  /\ Abs(orbit_points[j].x) <= orbit_points[j].r
                  /\ Abs(orbit_points[j].z) <= orbit_points[j].r
            /\ Abs(orbit_points[1].r - perihelion) <= RadiusTolerance
            /\ Abs(orbit_points[51].r - aphelion) <= RadiusTolerance
            /\ orbit_points[1].x = orbit_points[1].r
            /\ orbit_points[51].x = -orbit_points[51].r
            /\ orbit_points[101] = orbit_points[1]

\* The orbit curve of mercury, the most eccentric orbit, has been sampled by
\* the maya holder script.
C10_MercuryOrbitSampled ==
    /\ variant = "holder"
    /\ loc.op = "planet" /\ loc.name = "mercury"
    /\ Len(orbit_points) = num_points + 1
    /\ loc.aphelion - loc.perihelion > 100 * RadiusTolerance

\* C5: for every planet (both scripts), every asteroid and the moon
\* (enhanced script), total_rotation is positive and the orbital angle of
\* key k + 1 is strictly smaller than the orbital angle of key k of the same
\* body.
C5_AnglesStrictlyDecrease ==
    [][(loc' # loc /\ loc'.op \in {"planet_key", "asteroid_key", "moon_key"})
        => /\ loc'.total_rotation > 0
           /\ loc'.k > 0 =>
                 /\ loc.op = loc'.op
                 /\ loc.k + 1 = loc'.k
                 /\ loc'.op = "planet_key" => loc.name = loc'.name
                 /\ loc'.op = "asteroid_key" => loc.index = loc'.index
                 /\ loc'.angle < loc.angle]_vars

\* The last key of neptune, the slowest body, in the maya holder script.
C5_NeptuneLastKey ==
    /\ variant = "holder"
    /\ loc.op = "planet_key" /\ loc.name = "neptune"
    /\ loc.k = planet_keyframes
    /\ loc.angle < planets[8].start_angle

\* The resolution within which Kepler's equation is compared.
KeplerTolerance == 2

\* The resolution within which a coordinate of a planet at distance
\* semi_major is compared: a thousandth of semi_major.
PositionTolerance(semi_major) == semi_major \div 1000

\* C6 (as the code has it): for every planet key, the enhanced script gets E
\* from M by Newton iteration on E - e sin E = M (start E = M, 5 updates), E
\* solves Kepler's equation within KeplerTolerance, and the keyed x is the x
\* of the ellipse at eccentric anomaly E, a (cos E - e), within
\* PositionTolerance; the maya holder script applies no Newton update: its E
\* is M + e sin M, and its keyed x is a cos E - a e.
C6_EccentricAnomalyPerVariant ==
    loc.op = "planet_key" =>
        \E a \in {calculate_distance(planets[PlanetIndex(loc.name)].real_au)} :
            /\ loc.e = planets[PlanetIndex(loc.name)].eccentricity
            /\ loc.M = MulDiv(loc.angle, Pi, 180 * Milli)
            /\ keys[loc.name][loc.k + 1].x = loc.x
            /\ variant = "enhanced" =>
                  /\ loc.E = NewtonIterate(loc.M, loc.e, loc.M, 5)
                  /\ Abs(loc.E - FMul(loc.e, Sin(loc.E)) - loc.M)
                        <= KeplerTolerance
                  /\ Abs(loc.x - FMul(a, Cos(loc.E) - loc.e))
                        <= PositionTolerance(a)
            /\ variant = "holder" =>
                  /\ loc.E = loc.M + FMul(loc.e, Sin(loc.M))
                  /\ loc.x = FMul(a, Cos(loc.E)) - FMul(a, loc.e)

\* The largest number of Newton updates looked for in a script's E.
MaxNewtonUpdates == 8

\* C6 as stated: in every script, for every planet key, E is the result of a
\* number (at least one) of Newton updates starting from E = M.
C6_NewtonInEveryVariant ==
    loc.op = "planet_key" =>
        \E n \in 1..MaxNewtonUpdates :
            loc.E = NewtonIterate(loc.M, loc.e, loc.M, n)

\* A key of mercury, the most eccentric planet, away from the apsides, in
\* each script's case: E differs from M.
C6_MercuryKeyOffApsides ==
    /\ loc.op = "planet_key" /\ loc.name = "mercury"
    /\ Abs(loc.E - loc.M) > 100 * KeplerTolerance

\* C2: at every camera key the direction (dx, dz) goes from the earth's
\* position at the key's frame to the earth's position at a strictly later
\* frame, and the camera is at the earth's position minus the normalised
\* direction times camera_distance_behind (25).
C2_CameraBehindEarthAtEveryKey ==
    loc.op = "camera_key" =>
        /\ loc.next_frame > loc.frame
        /\ loc.length > 0
        /\ loc.x = loc.earth_pos.x - FMul(loc.dx, 25 * Scale)
        /\ loc.z = loc.earth_pos.z - FMul(loc.dz, 25 * Scale)

\* C3: in both scripts the earth's total_rotation is exactly 360 degrees:
\* its mean anomaly at its last key (frame 1000) is its mean anomaly at its
\* first key minus 360 degrees, and its last keyed position is its first.
C3_EarthYearIsOneRevolution ==
    (loc.op = "planet_key" /\ loc.name = "earth" /\ loc.k = 40) =>
        /\ loc.frame = 1000 * Milli
        /\ loc.total_rotation = 360 * Milli
        /\ loc.angle = planets[3].start_angle - 360 * Milli
        /\ keys["earth"][41].x = keys["earth"][1].x
        /\ keys["earth"][41].y = keys["earth"][1].y
        /\ keys["earth"][41].z = keys["earth"][1].z

====
